---- MODULE Spec2Model ----
(***************************************************************************)
(* nnav: the sandboxed tree subsystem (Path Guard, Scanner, Tree Builder,  *)
(* Node Store, Projection/Navigator) as a state machine.                   *)
(*                                                                         *)
(* Strings.  A file name is a sequence of one-character strings, so that   *)
(* strings.HasPrefix, strings.ToLower and filepath.Ext are computed on the *)
(* characters.  A path is a record [abs, segs]: abs says whether it starts *)
(* with the separator, segs are its components in order.  PathStr renders  *)
(* a path as the character sequence Go holds.                              *)
(***************************************************************************)
EXTENDS FiniteSets, Integers, Sequences, TLC

(***************************************************************************)
(* Characters and names                                                    *)
(***************************************************************************)
Sep == "/"
Dot == <<".">>
DotDot == <<".", ".">>

\* The characters of the model in ASCII order (byte order of Go's <).
Alphabet == <<".", "/", "A", "B", "D", "M", "a", "b", "c", "d", "e", "f", "k", "l", "m", "o", "r", "s", "t", "x", "z">>

Ord(c) == CHOOSE i \in 1..Len(Alphabet) : Alphabet[i] = c

\* unicode.ToLower on one character.
LowerChar(c) ==
    IF c = "A" THEN "a" ELSE IF c = "B" THEN "b"
    ELSE IF c = "D" THEN "d" ELSE IF c = "M" THEN "m" ELSE c

\* strings.ToLower
ToLower(s) == [i \in 1..Len(s) |-> LowerChar(s[i])]

\* strings.Contains(s, sub)
Contains(s, sub) == \E i \in 0..(Len(s) - Len(sub)) : SubSeq(s, i + 1, i + Len(sub)) = sub

\* strings.HasPrefix(s, pre)
HasPrefix(s, pre) == Len(s) >= Len(pre) /\ SubSeq(s, 1, Len(pre)) = pre

\* Go's < on strings: byte-wise lexicographic order.
RECURSIVE StrLess(_, _)
StrLess(a, b) ==
    IF b = <<>> THEN FALSE
    ELSE IF a = <<>> THEN TRUE
    ELSE IF Ord(Head(a)) < Ord(Head(b)) THEN TRUE
    ELSE IF Ord(Head(a)) > Ord(Head(b)) THEN FALSE
    ELSE StrLess(Tail(a), Tail(b))

Last(s) == s[Len(s)]
Front(s) == SubSeq(s, 1, Len(s) - 1)

(***************************************************************************)
(* Paths (path/filepath)                                                   *)
(***************************************************************************)
P(a, s) == [abs |-> a, segs |-> s]
AbsP(s) == P(TRUE, s)
RelP(s) == P(FALSE, s)

\* The string Go holds for a cleaned path: "." for the empty relative path.
RECURSIVE JoinSegs(_)
JoinSegs(segs) ==
    IF segs = <<>> THEN <<>>
    ELSE IF Len(segs) = 1 THEN segs[1]
    ELSE segs[1] \o <<Sep>> \o JoinSegs(Tail(segs))

PathStr(p) ==
    IF p.abs THEN <<Sep>> \o JoinSegs(p.segs)
    ELSE IF p.segs = <<>> THEN Dot
    ELSE JoinSegs(p.segs)

\* filepath.Clean: drop "" and ".", resolve "..", keep leading ".." of a
\* relative path, drop ".." at the root of an absolute one.
RECURSIVE CleanSegs(_, _, _)
CleanSegs(segs, out, abs) ==
    IF segs = <<>> THEN out
    ELSE LET c == Head(segs) IN
         IF c = <<>> \/ c = Dot THEN CleanSegs(Tail(segs), out, abs)
         ELSE IF c = DotDot THEN
              IF out # <<>> /\ Last(out) # DotDot THEN CleanSegs(Tail(segs), Front(out), abs)
              ELSE IF abs THEN CleanSegs(Tail(segs), out, abs)
              ELSE CleanSegs(Tail(segs), Append(out, DotDot), abs)
         ELSE CleanSegs(Tail(segs), Append(out, c), abs)

Clean(p) == P(p.abs, CleanSegs(p.segs, <<>>, p.abs))

\* filepath.IsAbs
IsAbs(p) == p.abs

\* filepath.Join(base, elem) == Clean(base + "/" + elem)
Join(base, elem) == Clean(P(base.abs, base.segs \o elem.segs))

\* filepath.Rel(base, targ): [err, path].
RECURSIVE CommonLen(_, _)
CommonLen(a, b) ==
    IF a = <<>> \/ b = <<>> THEN 0
    ELSE IF Head(a) = Head(b) THEN 1 + CommonLen(Tail(a), Tail(b))
    ELSE 0

Rel(basepath, targpath) ==
    LET base == Clean(basepath)
        targ == Clean(targpath)
        n == CommonLen(base.segs, targ.segs)
        brest == SubSeq(base.segs, n + 1, Len(base.segs))
        trest == SubSeq(targ.segs, n + 1, Len(targ.segs))
    IN  IF base = targ THEN [err |-> FALSE, path |-> RelP(<<>>)]
        ELSE IF base.abs # targ.abs THEN [err |-> TRUE, path |-> RelP(<<>>)]
        ELSE IF brest # <<>> /\ Head(brest) = DotDot THEN [err |-> TRUE, path |-> RelP(<<>>)]
        ELSE [err |-> FALSE, path |-> RelP([i \in 1..Len(brest) |-> DotDot] \o trest)]

\* filepath.Ext(name): the suffix from the last dot, "" when there is none.
RECURSIVE Ext(_)
Ext(name) ==
    IF name = <<>> THEN <<>>
    ELSE IF \A i \in 1..Len(name) : name[i] # "." THEN <<>>
    ELSE IF Head(name) = "." /\ \A i \in 2..Len(name) : name[i] # "." THEN name
    ELSE Ext(Tail(name))

(***************************************************************************)
(* The filesystem.  fs maps the absolute component sequences that exist to *)
(* an entry: a directory, a regular file (with its lines) or a symbolic    *)
(* link (with an absolute target).  readable is the r permission bit.      *)
(* A line of a file is [h, text]: h the heading text headingRE captures on  *)
(* that line ("" when the line is no heading), text the characters of the  *)
(* line in which the search term is looked for.                            *)
(***************************************************************************)
Dir(r) == [kind |-> "dir", target |-> <<>>, readable |-> r, lines |-> <<>>]
File(r, ls) == [kind |-> "file", target |-> <<>>, readable |-> r, lines |-> ls]
Link(t) == [kind |-> "link", target |-> t, readable |-> TRUE, lines |-> <<>>]
Line(h, text) == [h |-> h, text |-> text]

\* A name that os.ReadDir still returns while its file has been removed:
\* every access to it, lstat included, fails.
Gone == [kind |-> "gone", target |-> <<>>, readable |-> FALSE, lines |-> <<>>]

Exists(fs, segs) == segs \in DOMAIN fs /\ fs[segs].kind # "gone"

\* Resolution of every symbolic link of an absolute path, component by
\* component, as filepath.EvalSymlinks and the kernel both do it: an error
\* when a component is missing or the links loop.
RECURSIVE Walk(_, _, _, _)
Walk(fs, done, rest, fuel) ==
    IF rest = <<>> THEN [err |-> FALSE, segs |-> done]
    ELSE LET cur == Append(done, Head(rest)) IN
         IF ~Exists(fs, cur) THEN [err |-> TRUE, segs |-> cur \o Tail(rest)]
         ELSE IF fs[cur].kind = "link" THEN
              IF fuel = 0 THEN [err |-> TRUE, segs |-> cur \o Tail(rest)]
              ELSE Walk(fs, <<>>, fs[cur].target \o Tail(rest), fuel - 1)
         ELSE IF fs[cur].kind = "file" /\ Tail(rest) # <<>> THEN [err |-> TRUE, segs |-> cur \o Tail(rest)]
         ELSE Walk(fs, cur, Tail(rest), fuel)

\* filepath.EvalSymlinks(path): [err, path]
EvalSymlinks(fs, p) ==
    LET w == Walk(fs, <<>>, p.segs, Cardinality(DOMAIN fs))
    IN  [err |-> w.err, path |-> AbsP(w.segs)]

\* The location a path denotes to the operating system: every link on the
\* way is followed; a component that does not exist denotes the place where
\* it would be created.  (On a link loop the path denotes nothing and the
\* path itself is returned.)
RECURSIVE Locate(_, _, _, _)
Locate(fs, done, rest, fuel) ==
    IF rest = <<>> THEN done
    ELSE LET cur == Append(done, Head(rest)) IN
         IF ~Exists(fs, cur) THEN cur \o Tail(rest)
         ELSE IF fs[cur].kind = "link" THEN
              IF fuel = 0 THEN cur \o Tail(rest)
              ELSE Locate(fs, <<>>, fs[cur].target \o Tail(rest), fuel - 1)
         ELSE Locate(fs, cur, Tail(rest), fuel)

Location(fs, p) == Locate(fs, <<>>, p.segs, Cardinality(DOMAIN fs))

\* segs is root or a location beneath root.
Inside(segs, root) == Len(segs) >= Len(root) /\ SubSeq(segs, 1, Len(root)) = root

\* A result of Walk says the path exists and may be read / is a readable
\* directory.
Readable(fs, w) == ~w.err /\ fs[w.path.segs].readable
Listable(fs, w) == ~w.err /\ fs[w.path.segs].readable /\ fs[w.path.segs].kind = "dir"

\* os.Stat(path): follows links.  [err, isDir]
StatOf(fs, w) == [err |-> w.err, isDir |-> ~w.err /\ fs[w.path.segs].kind = "dir"]
Stat(fs, p) == StatOf(fs, EvalSymlinks(fs, p))

\* os.Open(path) for reading: the target exists and may be read.
OpenOK(fs, p) == Readable(fs, EvalSymlinks(fs, p))

\* os.Open(path) and d.Readdirnames(1): the target is a readable directory.
ListOK(fs, p) == Listable(fs, EvalSymlinks(fs, p))

\* The names os.ReadDir returns for the directory at the resolved location.
Entries(fs, resolved) ==
    {Last(q) : q \in {q \in DOMAIN fs : Len(q) = Len(resolved) + 1 /\ Front(q) = resolved}}

\* DirEntry.IsDir / e.Info().IsDir(): lstat, a link is not a directory.
LstatIsDir(fs, p) == Exists(fs, p.segs) /\ fs[p.segs].kind = "dir"

(***************************************************************************)
(* The access log of one handler: the guard checks made and the filesystem *)
(* accesses performed, in program order.  A guard event holds the path     *)
(* checked and the path returned; an access event holds the path accessed. *)
(***************************************************************************)
Ev(op, p, res, ok) == [op |-> op, path |-> p, res |-> res, ok |-> ok]

(***************************************************************************)
(* Path Guard (safeio.go).  Where a function binds a local and uses it     *)
(* more than once, the local is the last parameter of a helper operator    *)
(* that holds the rest of the function.                                    *)
(***************************************************************************)
Reject(why) == [ok |-> FALSE, path |-> RelP(<<>>), why |-> why]
Accept(p) == [ok |-> TRUE, path |-> p, why |-> ""]

\* rel is the root-relative form of joined; clean the cleaned candidate.
EscapesLexically(clean, rel) ==
    \/ rel.err
    \/ HasPrefix(PathStr(rel.path), DotDot)
    \/ (rel.path = RelP(<<>>) /\ clean = RelP(<<DotDot>>))

SafeJoinLexical(clean, joined, rel) ==
    IF IsAbs(clean) THEN Reject("absolute paths not allowed")
    ELSE IF EscapesLexically(clean, rel) THEN Reject("path escapes base dir")
    ELSE Accept(joined)

SafeJoinJoinedNoSymlinkCheck(fs, base, clean, joined) ==
    SafeJoinLexical(clean, joined, Rel(base, joined))

SafeJoinCleanNoSymlinkCheck(fs, base, clean) ==
    SafeJoinJoinedNoSymlinkCheck(fs, base, clean, Join(base, clean))

SafeJoinWithinNoSymlinkCheck(fs, base, userPath) ==
    SafeJoinCleanNoSymlinkCheck(fs, base, Clean(userPath))

SafeJoinCompareNoSep(absBase, absJoined) ==
    IF ~HasPrefix(PathStr(absJoined), PathStr(absBase)) /\ absJoined # absBase
    THEN Reject("symlink escape detected")
    ELSE Accept(absJoined)

SafeJoinCompare(absBase, absJoined) ==
    IF ~HasPrefix(PathStr(absJoined) \o <<Sep>>, PathStr(absBase) \o <<Sep>>)
       /\ absJoined # absBase
    THEN Reject("symlink escape detected")
    ELSE Accept(absJoined)

SafeJoinResolved(clean, joined, rel, absBase, evJoined) ==
    IF IsAbs(clean) THEN Reject("absolute paths not allowed")
    ELSE IF EscapesLexically(clean, rel) THEN Reject("path escapes base dir")
    ELSE IF absBase.err THEN Reject("eval base")
    ELSE SafeJoinCompare(absBase.path, IF evJoined.err THEN joined ELSE evJoined.path)

SafeJoinJoined(fs, base, clean, joined) ==
    SafeJoinResolved(clean, joined, Rel(base, joined),
                     EvalSymlinks(fs, base), EvalSymlinks(fs, joined))

SafeJoinClean(fs, base, clean) == SafeJoinJoined(fs, base, clean, Join(base, clean))

safeJoinWithin(fs, base, userPath) == SafeJoinClean(fs, base, Clean(userPath))

\* safePathWithinNotes(p), with notesRoot() == root.
SafePathRel(fs, root, rel) ==
    IF rel.err THEN Reject("rel") ELSE safeJoinWithin(fs, root, rel.path)

safePathWithinNotes(fs, root, p) == SafePathRel(fs, root, Rel(root, p))

(***************************************************************************)
(* Readability checks (safeio.go).  Each returns [ok, log].                *)
(***************************************************************************)
Opened(path, g, ok) ==
    [ok |-> ok, log |-> <<Ev("guard", path, g.path, TRUE), Ev("open", g.path, g.path, ok)>>]
Refused(path, g) ==
    [ok |-> FALSE, log |-> <<Ev("guard", path, g.path, FALSE)>>]

IsReadableFileGuarded(fs, path, g) ==
    IF g.ok THEN Opened(path, g, OpenOK(fs, g.path)) ELSE Refused(path, g)

IsReadableFileUnguarded(fs, root, path) ==
    [ok |-> OpenOK(fs, path), log |-> <<Ev("open", path, path, TRUE)>>]

isReadableFile(fs, root, path) ==
    IsReadableFileGuarded(fs, path, safePathWithinNotes(fs, root, path))

\* isListableDir opens the directory and, when that succeeds, reads one
\* entry name of it with Readdirnames(1).
Probed(r) ==
    IF r.ok THEN [r EXCEPT !.log = r.log \o <<Ev("readdirnames", r.log[2].path, r.log[2].res, TRUE)>>]
    ELSE r

IsListableDirGuarded(fs, path, g) ==
    IF g.ok THEN Probed(Opened(path, g, ListOK(fs, g.path))) ELSE Refused(path, g)

isListableDir(fs, root, path) ==
    IsListableDirGuarded(fs, path, safePathWithinNotes(fs, root, path))

(***************************************************************************)
(* Scanner (tree.go)                                                       *)
(***************************************************************************)
allowedExts == {<<".", "m", "d">>, <<".", "t", "x", "t">>}

\* The loop of scanTitle over the lines of the file: the first heading is
\* kept, the term is looked for until found, and the loop stops as soon as
\* both are known.
RECURSIVE ScanLines(_, _, _, _)
ScanStepStopsWhenFound(lines, t2, f2, lower) ==
    IF f2 THEN [title |-> t2, found |-> f2]
    ELSE ScanLines(Tail(lines), t2, f2, lower)

ScanStep(lines, t2, f2, lower) ==
    IF f2 /\ t2 # "" THEN [title |-> t2, found |-> f2]
    ELSE ScanLines(Tail(lines), t2, f2, lower)

ScanLines(lines, title, found, lower) ==
    IF lines = <<>> THEN [title |-> title, found |-> found]
    ELSE ScanStep(lines,
                  IF Head(lines).h # "" /\ title = "" THEN Head(lines).h ELSE title,
                  found \/ Contains(ToLower(Head(lines).text), lower),
                  lower)

\* scanTitle(p, term): [title, found, log]
Scanned(p, g, r) ==
    [title |-> r.title, found |-> r.found,
     log |-> <<Ev("guard", p, g.path, TRUE), Ev("open", g.path, g.path, TRUE)>>]

ScanTitleOpenCaseSensitive(fs, p, term, g, w) ==
    IF ~Readable(fs, w)
    THEN [title |-> "", found |-> FALSE,
          log |-> <<Ev("guard", p, g.path, TRUE), Ev("open", g.path, g.path, FALSE)>>]
    ELSE Scanned(p, g, ScanLines(fs[w.path.segs].lines, "", term = <<>>, term))

ScanTitleOpen(fs, p, term, g, w) ==
    IF ~Readable(fs, w)
    THEN [title |-> "", found |-> FALSE,
          log |-> <<Ev("guard", p, g.path, TRUE), Ev("open", g.path, g.path, FALSE)>>]
    ELSE Scanned(p, g, ScanLines(fs[w.path.segs].lines, "", term = <<>>, ToLower(term)))

ScanTitleGuarded(fs, p, term, g) ==
    IF ~g.ok
    THEN [title |-> "", found |-> term = <<>>, log |-> <<Ev("guard", p, g.path, FALSE)>>]
    ELSE ScanTitleOpen(fs, p, term, g, EvalSymlinks(fs, g.path))

scanTitle(fs, root, p, term) ==
    ScanTitleGuarded(fs, p, term, safePathWithinNotes(fs, root, p))

Node(name, path, isDir, expanded, title, children) ==
    [Name |-> name, Path |-> path, IsDir |-> isDir, Expanded |-> expanded,
     Title |-> title, Children |-> children]

\* The order sort.Slice gives the entries os.ReadDir returned (sorted by
\* name): directories first, then by lower-cased name; entries the
\* comparison does not order keep the order of os.ReadDir.  dir is the
\* resolved directory, as a component sequence.
EntLessBytes(ad, bd, a, b) ==
    IF ad /\ ~bd THEN TRUE
    ELSE IF ~ad /\ bd THEN FALSE
    ELSE StrLess(a, b)

EntLessKinds(ad, bd, a, b) ==
    IF ad /\ ~bd THEN TRUE
    ELSE IF ~ad /\ bd THEN FALSE
    ELSE StrLess(ToLower(a), ToLower(b))

EntLess(fs, dir, a, b) ==
    EntLessKinds(LstatIsDir(fs, AbsP(Append(dir, a))), LstatIsDir(fs, AbsP(Append(dir, b))), a, b)

EntBefore(fs, dir, a, b) ==
    EntLess(fs, dir, a, b) \/ (~EntLess(fs, dir, b, a) /\ StrLess(a, b))

RECURSIVE SortEnts(_, _, _)
SortFrom(fs, dir, names, first) == <<first>> \o SortEnts(fs, dir, names \ {first})

SortEnts(fs, dir, names) ==
    IF names = {} THEN <<>>
    ELSE SortFrom(fs, dir, names,
                  CHOOSE a \in names : \A b \in names \ {a} : EntBefore(fs, dir, a, b))

\* readDirNodes(dir, term): [err, nodes, log].  The body of the loop over
\* the entries is ScanEntry; resolved is the directory the operating system
\* lists for dir, and the type of an entry is lstat's.
Skip(log) == [nodes |-> <<>>, log |-> log]
Keep(n, log) == [nodes |-> <<n>>, log |-> log]

RECURSIVE readDirNodes(_, _, _, _)

ScanSubdir(name, p, l, kids) ==
    IF kids.err \/ Len(kids.nodes) = 0 THEN Skip(l.log \o kids.log)
    ELSE Keep(Node(name, p, TRUE, TRUE, "", kids.nodes), l.log \o kids.log)

ScanDirAlwaysRecursive(fs, root, name, p, term, l) ==
    IF ~l.ok THEN Skip(l.log)
    ELSE ScanSubdir(name, p, l, readDirNodes(fs, root, p, term))

ScanDir(fs, root, name, p, term, l) ==
    IF ~l.ok THEN Skip(l.log)
    ELSE IF term # <<>> THEN ScanSubdir(name, p, l, readDirNodes(fs, root, p, term))
    ELSE Keep(Node(name, p, TRUE, FALSE, "", <<>>), l.log)

ScanNote(name, p, term, r, t) ==
    IF term # <<>> /\ ~t.found THEN Skip(r.log \o t.log)
    ELSE Keep(Node(name, p, FALSE, FALSE, t.title, <<>>), r.log \o t.log)

ScanFile(fs, root, name, p, term, r) ==
    IF ~r.ok THEN Skip(r.log)
    ELSE ScanNote(name, p, term, r, scanTitle(fs, root, p, term))

ScanEntryLinkAsDir(fs, root, isDir, name, p, term) ==
    IF isDir THEN ScanDir(fs, root, name, p, term, isListableDir(fs, root, p))
    ELSE IF ~Stat(fs, p).err /\ Stat(fs, p).isDir
    THEN Keep(Node(name, p, TRUE, FALSE, "", <<>>), <<>>)
    ELSE IF ToLower(Ext(name)) \notin allowedExts THEN Skip(<<>>)
    ELSE ScanFile(fs, root, name, p, term, isReadableFile(fs, root, p))

ScanEntryAnyExt(fs, root, isDir, name, p, term) ==
    IF isDir THEN ScanDir(fs, root, name, p, term, isListableDir(fs, root, p))
    ELSE ScanFile(fs, root, name, p, term, isReadableFile(fs, root, p))

ScanEntry(fs, root, isDir, name, p, term) ==
    IF isDir THEN ScanDir(fs, root, name, p, term, isListableDir(fs, root, p))
    ELSE IF ToLower(Ext(name)) \notin allowedExts THEN Skip(<<>>)
    ELSE ScanFile(fs, root, name, p, term, isReadableFile(fs, root, p))

ScanConsStopAtSkip(one, rest) ==
    IF one.nodes = <<>> THEN one
    ELSE [nodes |-> one.nodes \o rest.nodes, log |-> one.log \o rest.log]

ScanCons(one, rest) == [nodes |-> one.nodes \o rest.nodes, log |-> one.log \o rest.log]

\* e.Info() fails for an entry that is gone, and the entry is skipped.
ScanInfo(fs, root, entry, name, p, term) ==
    IF ~Exists(fs, entry.segs) THEN Skip(<<>>)
    ELSE ScanEntry(fs, root, LstatIsDir(fs, entry), name, p, term)

RECURSIVE ScanEntries(_, _, _, _, _, _)
ScanEntries(fs, root, resolved, dir, term, ents) ==
    IF ents = <<>> THEN Skip(<<>>)
    ELSE ScanCons(ScanInfo(fs, root, AbsP(Append(resolved, Head(ents))),
                           Head(ents), Join(dir, RelP(<<Head(ents)>>)), term),
                  ScanEntries(fs, root, resolved, dir, term, Tail(ents)))

Listed(dir, r) ==
    [err |-> FALSE, nodes |-> r.nodes, log |-> <<Ev("list", dir, dir, TRUE)>> \o r.log]

ReadDirNodesAt(fs, root, dir, term, w) ==
    IF ~Listable(fs, w)
    THEN [err |-> TRUE, nodes |-> <<>>, log |-> <<Ev("list", dir, dir, FALSE)>>]
    ELSE Listed(dir, ScanEntries(fs, root, w.path.segs, dir, term,
                                 SortEnts(fs, w.path.segs, Entries(fs, w.path.segs))))

readDirNodes(fs, root, dir, term) ==
    ReadDirNodesAt(fs, root, dir, term, EvalSymlinks(fs, dir))

(***************************************************************************)
(* Tree Builder (tree.go)                                                  *)
(***************************************************************************)
NoNode == Node(<<>>, AbsP(<<>>), FALSE, FALSE, "", <<>>)

\* filepath.Base of a cleaned absolute path
Base(p) == IF p.segs = <<>> THEN <<Sep>> ELSE Last(p.segs)

\* buildTree(root, term): [err, node, log]; err is "" on success.
Failed(err, log) == [err |-> err, node |-> NoNode, log |-> log]
StatEv(root, ok) == <<Ev("stat", root, root, ok)>>

BuildRoot(root, l, children) ==
    IF children.err THEN Failed("read dir", StatEv(root, TRUE) \o l.log \o children.log)
    ELSE [err |-> "",
          node |-> Node(Base(root), root, TRUE, TRUE, "", children.nodes),
          log |-> StatEv(root, TRUE) \o l.log \o children.log]

BuildListable(fs, root, term, l) ==
    IF ~l.ok THEN Failed("cannot read notesdir", StatEv(root, TRUE) \o l.log)
    ELSE BuildRoot(root, l, readDirNodes(fs, root, root, term))

BuildStatNoDirCheck(fs, root, term, info) ==
    IF info.err THEN Failed("not found", StatEv(root, FALSE))
    ELSE BuildListable(fs, root, term, isListableDir(fs, root, root))

BuildStat(fs, root, term, info) ==
    IF info.err THEN Failed("not found", StatEv(root, FALSE))
    ELSE IF ~info.isDir THEN Failed("notesdir must point to a directory", StatEv(root, TRUE))
    ELSE BuildListable(fs, root, term, isListableDir(fs, root, root))

buildTree(fs, root, term) == BuildStat(fs, root, term, Stat(fs, root))

(***************************************************************************)
(* Node Store: a tree of Node records.  A node is addressed by the         *)
(* sequence of child indices that leads to it from the root; a Visible     *)
(* entry holds the address of its node (the *Node of the code) and its     *)
(* depth.                                                                  *)
(***************************************************************************)
RECURSIVE GetNode(_, _)
GetNode(n, addr) ==
    IF addr = <<>> THEN n ELSE GetNode(n.Children[Head(addr)], Tail(addr))

RECURSIVE SetNode(_, _, _)
SetNode(n, addr, new) ==
    IF addr = <<>> THEN new
    ELSE [n EXCEPT !.Children[Head(addr)] = SetNode(@, Tail(addr), new)]

Visible(addr, depth) == [N |-> addr, Depth |-> depth]

\* flatten(n, depth, out): n, then the flattened children of an expanded
\* directory one level deeper.  FlattenKids is the loop over n.Children
\* from index i on.
RECURSIVE flatten(_, _, _)
RECURSIVE FlattenKids(_, _, _, _)
FlattenKidsDeepening(n, addr, depth, i) ==
    IF i > Len(n.Children) THEN <<>>
    ELSE flatten(n.Children[i], Append(addr, i), depth)
         \o FlattenKids(n, addr, depth + 1, i + 1)

FlattenKids(n, addr, depth, i) ==
    IF i > Len(n.Children) THEN <<>>
    ELSE flatten(n.Children[i], Append(addr, i), depth) \o FlattenKids(n, addr, depth, i + 1)

flattenSameDepth(n, addr, depth) ==
    <<Visible(addr, depth)>> \o
    (IF n.IsDir /\ n.Expanded THEN FlattenKids(n, addr, depth, 1) ELSE <<>>)

flatten(n, addr, depth) ==
    <<Visible(addr, depth)>> \o
    (IF n.IsDir /\ n.Expanded THEN FlattenKids(n, addr, depth + 1, 1) ELSE <<>>)

\* expandIfNeeded(n, term): [err, node, log]; node is n as the call leaves it.
ExpandedBeforeScan(n, kids) ==
    IF kids.err THEN [err |-> TRUE, node |-> [n EXCEPT !.Expanded = TRUE], log |-> kids.log]
    ELSE [err |-> FALSE, node |-> [n EXCEPT !.Children = kids.nodes, !.Expanded = TRUE],
          log |-> kids.log]

Expanded(n, kids) ==
    IF kids.err THEN [err |-> TRUE, node |-> n, log |-> kids.log]
    ELSE [err |-> FALSE, node |-> [n EXCEPT !.Children = kids.nodes, !.Expanded = TRUE],
          log |-> kids.log]

expandIfNeededAlwaysScan(fs, root, n, term) ==
    IF ~n.IsDir THEN [err |-> FALSE, node |-> n, log |-> <<>>]
    ELSE IF n.Expanded /\ Len(n.Children) > 0 THEN [err |-> FALSE, node |-> n, log |-> <<>>]
    ELSE Expanded(n, readDirNodes(fs, root, n.Path, term))

expandIfNeeded(fs, root, n, term) ==
    IF ~n.IsDir THEN [err |-> FALSE, node |-> n, log |-> <<>>]
    ELSE IF n.Expanded /\ Len(n.Children) > 0 THEN [err |-> FALSE, node |-> n, log |-> <<>>]
    ELSE IF Len(n.Children) = 0 THEN Expanded(n, readDirNodes(fs, root, n.Path, term))
    ELSE [err |-> FALSE, node |-> [n EXCEPT !.Expanded = TRUE], log |-> <<>>]

(***************************************************************************)
(* Projection/Navigator: the Bubble Tea model (tui.go).  A model value is  *)
(* a record with the fields of the struct (width is stored and never read  *)
(* and is left out).                                                       *)
(***************************************************************************)
helpText == <<"help">>
minTopMargin == 2
minBottomMargin == 2

Max(a, b) == IF a > b THEN a ELSE b
Min(a, b) == IF a < b THEN a ELSE b

\* (m *model) adjustScroll(): the three assignments to m.scroll in order.
ScrollTop(m, s) ==
    IF m.cursor < s + minTopMargin THEN Max(0, m.cursor - minTopMargin) ELSE s

ScrollBottomNoMargin(m, usable, s) ==
    IF m.cursor >= s + usable THEN Max(0, m.cursor - usable + 1) ELSE s

ScrollBottom(m, usable, s) ==
    IF m.cursor >= s + usable - minBottomMargin
    THEN Max(0, m.cursor - usable + minBottomMargin + 1) ELSE s

ScrollNoClamp(m, usable, s) == s

ScrollClamp(m, usable, s) ==
    IF s > Max(0, Len(m.visible) - usable) THEN Max(0, Len(m.visible) - usable) ELSE s

adjustScroll(m) ==
    IF m.height <= 0 THEN m
    ELSE IF m.height - 4 <= 0 THEN m
    ELSE [m EXCEPT !.scroll =
            ScrollClamp(m, m.height - 4,
                ScrollBottom(m, m.height - 4, ScrollTop(m, m.scroll)))]

\* (m *model) recompute()
ClampedToLast(m, vis) ==
    [m EXCEPT !.visible = vis,
              !.cursor = IF m.cursor >= Len(vis) THEN Len(vis) - 1 ELSE m.cursor]

Clamped(m, vis) ==
    [m EXCEPT !.visible = vis,
              !.cursor = IF m.cursor >= Len(vis)
                         THEN (IF Len(vis) = 0 THEN 0 ELSE Len(vis) - 1)
                         ELSE m.cursor]

recomputeShowsRoot(m) == adjustScroll(Clamped(m, flatten(m.root, <<>>, 0)))

recompute(m) == adjustScroll(Clamped(m, FlattenKids(m.root, <<>>, 0, 1)))

\* newModel(root, term)
newModel(root, term) ==
    recompute([root |-> root, cursor |-> 0, visible |-> <<>>, status |-> helpText,
               height |-> 0, scroll |-> 0, searchTerm |-> term])

\* The handlers of model.Update, one per message.  Out is the new model and
\* the access log of the handler.
Out(m, log) == [m |-> m, log |-> log]

\* The node at the cursor
CursorAddr(m) == m.visible[m.cursor + 1].N
CursorNode(m) == GetNode(m.root, CursorAddr(m))

UpdateDownWrap(m) ==
    IF m.cursor < Len(m.visible) - 1
    THEN adjustScroll([m EXCEPT !.cursor = m.cursor + 1])
    ELSE adjustScroll([m EXCEPT !.cursor = 0])

UpdateDownPastEnd(m) ==
    IF m.cursor < Len(m.visible)
    THEN adjustScroll([m EXCEPT !.cursor = m.cursor + 1]) ELSE m

UpdateDown(m) ==
    IF m.cursor < Len(m.visible) - 1
    THEN adjustScroll([m EXCEPT !.cursor = m.cursor + 1]) ELSE m

UpdateUp(m) ==
    IF m.cursor > 0
    THEN adjustScroll([m EXCEPT !.cursor = m.cursor - 1]) ELSE m

RightExpanded(m, addr, e) ==
    IF e.err THEN Out([m EXCEPT !.root = SetNode(m.root, addr, e.node),
                                !.status = <<"error: ", "read dir">>], e.log)
    ELSE Out(recompute([m EXCEPT !.root = SetNode(m.root, addr, e.node)]), e.log)

RightOn(m, fs, cfg, addr, cur) ==
    IF cur.IsDir /\ ~cur.Expanded
    THEN RightExpanded(m, addr, expandIfNeeded(fs, cfg, cur, m.searchTerm))
    ELSE Out(m, <<>>)

UpdateRight(m, fs, cfg) ==
    IF Len(m.visible) = 0 THEN Out(m, <<>>)
    ELSE RightOn(m, fs, cfg, CursorAddr(m), CursorNode(m))

LeftOnNoRecompute(m, addr, cur) ==
    IF cur.IsDir /\ cur.Expanded
    THEN [m EXCEPT !.root = SetNode(m.root, addr, [cur EXCEPT !.Expanded = FALSE])]
    ELSE m

LeftOnDropsChildren(m, addr, cur) ==
    IF cur.IsDir /\ cur.Expanded
    THEN recompute([m EXCEPT !.root =
                      SetNode(m.root, addr, [cur EXCEPT !.Expanded = FALSE, !.Children = <<>>])])
    ELSE m

LeftOn(m, addr, cur) ==
    IF cur.IsDir /\ cur.Expanded
    THEN recompute([m EXCEPT !.root = SetNode(m.root, addr, [cur EXCEPT !.Expanded = FALSE])])
    ELSE m

UpdateLeft(m) ==
    IF Len(m.visible) = 0 THEN m ELSE LeftOn(m, CursorAddr(m), CursorNode(m))

\* The enter key: [m, launch, arg, log].  edOK is the outcome of
\* resolveEditor() (configuration and PATH lookup).
NoLaunch(m, log) == [m |-> m, launch |-> FALSE, arg |-> AbsP(<<>>), log |-> log]

EnterSafeUnchecked(m, cur, safe) ==
    [m |-> m, launch |-> TRUE, arg |-> cur.Path,
     log |-> <<Ev("exec", cur.Path, cur.Path, TRUE)>>]

EnterSafe(m, cur, safe) ==
    IF ~safe.ok
    THEN NoLaunch([m EXCEPT !.status = <<"unsafe path: ", safe.why>>],
                  <<Ev("guard", cur.Path, safe.path, FALSE)>>)
    ELSE [m |-> m, launch |-> TRUE, arg |-> safe.path,
          log |-> <<Ev("guard", cur.Path, safe.path, TRUE),
                    Ev("exec", safe.path, safe.path, TRUE)>>]

EnterRel(m, fs, cfg, cur, rel) ==
    IF rel.err THEN NoLaunch([m EXCEPT !.status = <<"path error: ">>], <<>>)
    ELSE EnterSafe(m, cur, safeJoinWithin(fs, cfg, rel.path))

EnterOn(m, fs, cfg, edOK, cur) ==
    IF cur.IsDir THEN NoLaunch(m, <<>>)
    ELSE IF ~edOK THEN NoLaunch([m EXCEPT !.status = <<"editor error: ">>], <<>>)
    ELSE EnterRel(m, fs, cfg, cur, Rel(cfg, cur.Path))

UpdateEnter(m, fs, cfg, edOK) ==
    IF Len(m.visible) = 0 THEN NoLaunch(m, <<>>)
    ELSE EnterOn(m, fs, cfg, edOK, CursorNode(m))

\* The r key.  time.Now() in the status text is left out.
ReloadedCursorResetFirst(m, b) ==
    IF b.err = ""
    THEN Out([recompute([m EXCEPT !.root = b.node, !.cursor = 0])
                EXCEPT !.status = <<"reloaded at ">>], b.log)
    ELSE Out([recompute([m EXCEPT !.cursor = 0])
                EXCEPT !.status = <<"reload failed: ", b.err>>], b.log)

Reloaded(m, b) ==
    IF b.err = ""
    THEN Out([recompute([m EXCEPT !.root = b.node, !.cursor = 0])
                EXCEPT !.status = <<"reloaded at ">>], b.log)
    ELSE Out([m EXCEPT !.status = <<"reload failed: ", b.err>>], b.log)

UpdateReload(m, fs, cfg) == Reloaded(m, buildTree(fs, cfg, m.searchTerm))

\* resumedMsg
Resumed(m, b) ==
    IF b.err = ""
    THEN Out([recompute([m EXCEPT !.root = b.node, !.cursor = 0])
                EXCEPT !.status = helpText], b.log)
    ELSE Out([m EXCEPT !.status = <<"reload failed: ", b.err>>], b.log)

UpdateResumed(m, fs, cfg) == Resumed(m, buildTree(fs, cfg, m.searchTerm))

\* tea.WindowSizeMsg
UpdateWindowSize(m, h) == adjustScroll([m EXCEPT !.height = h])

\* strings.TrimSpace on a title: a title of blanks becomes empty.
TrimSpace(t) == IF t = " " THEN "" ELSE t

\* displayName(n): what is drawn for a node, as a sequence of strings.
displayName(n) ==
    IF n.IsDir THEN n.Name
    ELSE IF TrimSpace(n.Title) # "" THEN <<TrimSpace(n.Title)>>
    ELSE n.Name

\* (m model) View(): the window of the list that is drawn, one row per
\* visible entry from m.scroll to end, the row of the cursor highlighted,
\* and the status line.
ViewUsable(m) == IF m.height - 4 < 1 THEN Len(m.visible) ELSE m.height - 4

ViewEnd(m) == Min(Len(m.visible), m.scroll + ViewUsable(m))

ViewRow(m, i) == [index |-> i, entry |-> m.visible[i + 1], cursor |-> i = m.cursor]

View(m) ==
    [rows |-> [k \in 1..(ViewEnd(m) - m.scroll) |-> ViewRow(m, m.scroll + k - 1)],
     status |-> m.status]

(***************************************************************************)
(* Filesystem layouts                                                      *)
(***************************************************************************)
nR == <<"r">>
nRo == <<"r", "o">>
nS == <<"s">>
nD == <<"d">>
nA == <<"a", ".", "m", "d">>
nB == <<"B", ".", "t", "x", "t">>
nK == <<"k", ".", "m", "d">>
nL == <<"l", ".", "m", "d">>
nX == <<"x">>

\* The greatest terminal height of a resize, and the number of further
\* notes a later layout adds to the root directory.
MaxHeight == 7
MaxExtra == 1

Heights == 4..MaxHeight

ExtraName(i) == <<"f">> \o [j \in 1..i |-> "z"] \o <<".", "m", "d">>

Extras(n) == [p \in {<<nR, ExtraName(i)>> : i \in 1..n} |-> File(TRUE, <<Line("F", <<"c">>)>>)]

\* /ro is a directory beside the root /r whose name begins with the root's;
\* /s is a link to the root; /r/l.md is a link that leaves the root; /x is
\* a directory the user may not read.
Outside ==
    <<nRo>> :> Dir(TRUE) @@ <<nRo, nK>> :> File(TRUE, <<Line("K", <<"a", "B">>)>>)
    @@ <<nS>> :> Link(<<nR>>) @@ <<nR, nL>> :> Link(<<nRo, nK>>)
    @@ <<nX>> :> Dir(FALSE)

Disk0 ==
    <<nR>> :> Dir(TRUE) @@ <<nR, nD>> :> Dir(TRUE)
    @@ <<nR, nD, nB>> :> File(TRUE, <<Line("", <<"b", "c">>)>>)
    @@ <<nR, nA>> :> File(TRUE, <<Line("A", <<"c">>)>>)
    @@ Outside

\* /r/d has become a link to the directory /ro outside the root.
DiskSwap ==
    <<nR>> :> Dir(TRUE) @@ <<nR, nD>> :> Link(<<nRo>>)
    @@ <<nR, nA>> :> File(TRUE, <<Line("A", <<"c">>)>>)
    @@ Outside

\* /r/d is gone and notes were added to the root.
DiskMore ==
    <<nR>> :> Dir(TRUE)
    @@ <<nR, nA>> :> File(TRUE, <<Line("A", <<"c">>)>>)
    @@ Extras(MaxExtra) @@ Outside

\* The root is gone.
DiskNoRoot == Outside

Disks == {Disk0, DiskSwap, DiskMore, DiskNoRoot}
Roots == {AbsP(<<nR>>), AbsP(<<nRo>>), AbsP(<<nR, nA>>), AbsP(<<nX>>)}
Terms == {<<>>, <<"B">>}

(***************************************************************************)
(* State                                                                   *)
(***************************************************************************)
VARIABLES
    m,          \* the Bubble Tea model
    fs,         \* the filesystem
    cfgRoot,    \* notesdir of ~/.nnav, what notesRoot() returns
    pc,         \* "ui": the event loop runs; "editor": the editor has the terminal;
                \* "resumed": the editor has exited and resumedMsg is in flight
    editorArg,  \* the path given to the editor that is running, NoArg when none is
    log,        \* the access log of the last handler
    gIn,        \* the function under test (Path Guard, resolveEditor): its inputs
    gOut        \* the function under test: its result

vars == <<m, fs, cfgRoot, pc, editorArg, log, gIn, gOut>>

NoArg == AbsP(<<>>)
NoGuard == [base |-> AbsP(<<>>), cand |-> RelP(<<>>)]
NoResult == Reject("not run")

\* main(): the tree is built before the program starts; a failure exits.
Started(b, term) == b.err = "" /\ m = newModel(b.node, term)

\* The outcome of a handler becomes the state.
Handled(r) == m' = r.m /\ log' = r.log

Launched(r) ==
    /\ m' = r.m
    /\ log' = r.log
    /\ pc' = IF r.launch THEN "editor" ELSE "ui"
    /\ editorArg' = IF r.launch THEN r.arg ELSE editorArg

InitWith(disk, root, term) ==
    /\ fs = disk
    /\ cfgRoot = root
    /\ Started(buildTree(disk, root, term), term)
    /\ pc = "ui"
    /\ editorArg = NoArg
    /\ log = <<>>
    /\ gIn = NoGuard
    /\ gOut = NoResult

Init == \E term \in Terms : InitWith(Disk0, AbsP(<<nR>>), term)

Frame == UNCHANGED <<fs, cfgRoot, gIn, gOut>>

Down ==
    /\ pc = "ui"
    /\ m' = UpdateDown(m)
    /\ log' = <<>>
    /\ UNCHANGED <<pc, editorArg>> /\ Frame

Up ==
    /\ pc = "ui"
    /\ m' = UpdateUp(m)
    /\ log' = <<>>
    /\ UNCHANGED <<pc, editorArg>> /\ Frame

Right ==
    /\ pc = "ui"
    /\ Handled(UpdateRight(m, fs, cfgRoot))
    /\ UNCHANGED <<pc, editorArg>> /\ Frame

Left ==
    /\ pc = "ui"
    /\ m' = UpdateLeft(m)
    /\ log' = <<>>
    /\ UNCHANGED <<pc, editorArg>> /\ Frame

Enter ==
    /\ pc = "ui"
    /\ \E edOK \in BOOLEAN : Launched(UpdateEnter(m, fs, cfgRoot, edOK))
    /\ Frame

Reload ==
    /\ pc = "ui"
    /\ Handled(UpdateReload(m, fs, cfgRoot))
    /\ UNCHANGED <<pc, editorArg>> /\ Frame

\* The callback given to tea.ExecProcess: the message sent when the editor
\* has exited, with or without an error.
ExecCallbackDropsError(err) == IF err THEN "ui" ELSE "resumed"

ExecCallback(err) == "resumed"

\* The editor process exits; the runtime, which has waited for it and for
\* nothing else, calls the callback and sends its message.
EditorExit ==
    /\ pc = "editor"
    /\ \E err \in BOOLEAN : pc' = ExecCallback(err)
    /\ log' = <<>>
    /\ UNCHANGED <<m, editorArg>> /\ Frame

\* resumedMsg is handled.
Resume ==
    /\ pc = "resumed"
    /\ Handled(UpdateResumed(m, fs, cfgRoot))
    /\ pc' = "ui"
    /\ editorArg' = NoArg
    /\ Frame

Resize ==
    /\ pc = "ui"
    /\ \E h \in Heights : m' = UpdateWindowSize(m, h)
    /\ log' = <<>>
    /\ UNCHANGED <<pc, editorArg>> /\ Frame

\* The environment: the filesystem changes under the program, and the
\* user edits notesdir in ~/.nnav.
EnvFs ==
    /\ \E d \in Disks \ {fs} : fs' = d
    /\ log' = <<>>
    /\ UNCHANGED <<m, cfgRoot, pc, editorArg, gIn, gOut>>

EnvCfg ==
    /\ \E r \in Roots \ {cfgRoot} : cfgRoot' = r
    /\ log' = <<>>
    /\ UNCHANGED <<m, fs, pc, editorArg, gIn, gOut>>

Next ==
    Down \/ Up \/ Right \/ Left \/ Enter \/ EditorExit \/ Reload \/ Resume \/ Resize
        \/ EnvFs \/ EnvCfg

Spec == Init /\ [][Next]_vars

\* The keys and the editor on the first layout at a window of no size, with
\* notesdir edited under the program.  The event loop handles a message
\* that was sent to it: Resume is the one step that takes resumedMsg.
NextLive ==
    Down \/ Up \/ Right \/ Left \/ Enter \/ EditorExit \/ Reload \/ Resume \/ EnvCfg

\* resumedMsg leaves the queue of the event loop: the step Resume takes.
ResumeHandled == pc = "resumed" /\ pc' = "ui"

SpecLive == Init /\ [][NextLive]_vars /\ WF_pc(ResumeHandled)

(***************************************************************************)
(* The Path Guard on its own: the filesystem, the root and the candidate   *)
(* are drawn from bounded sets and safeJoinWithin is applied once.         *)
(***************************************************************************)
nZ == <<"z", "z", ".", "m", "d">>
nDots == <<".", ".", "x", ".", "m", "d">>

\* /r/l.md is a dangling link: its target outside the root does not exist.
DiskDangling ==
    <<nR, nL>> :> Link(<<nRo, nZ>>) @@ Disk0

\* /r/l.md is a link to the directory /ro outside the root.
DiskDirLink ==
    <<nR, nL>> :> Link(<<nRo>>) @@ Disk0

\* A note whose name begins with two dots.
DiskDots ==
    <<nR, nDots>> :> File(TRUE, <<Line("X", <<"a", "B">>)>>) @@ Disk0

GuardDisks == {Disk0, DiskSwap, DiskDangling, DiskDirLink, DiskDots}
GuardRoots == {AbsP(<<nR>>), AbsP(<<nS>>)}
Candidates ==
    {RelP(<<>>), RelP(<<Dot>>), RelP(<<DotDot>>), RelP(<<nA>>), RelP(<<nL>>), RelP(<<nZ>>),
     RelP(<<nDots>>), RelP(<<nD, nB>>), RelP(<<nD, nK>>), RelP(<<nD, nZ>>),
     RelP(<<nD, DotDot, nA>>), RelP(<<nD, DotDot, DotDot, nRo, nK>>),
     RelP(<<DotDot, nRo, nK>>), RelP(<<DotDot, nR, nA>>), AbsP(<<nR, nA>>)}

NoModel == newModel(NoNode, <<>>)

InitGuard ==
    /\ fs \in GuardDisks
    /\ gIn \in [base : GuardRoots, cand : Candidates]
    /\ gOut = NoResult
    /\ cfgRoot = gIn.base
    /\ m = NoModel
    /\ pc = "guard"
    /\ editorArg = NoArg
    /\ log = <<>>

GuardCheck ==
    /\ pc = "guard"
    /\ gOut' = safeJoinWithin(fs, gIn.base, gIn.cand)
    /\ pc' = "checked"
    /\ UNCHANGED <<m, fs, cfgRoot, editorArg, log, gIn>>

NextGuard == GuardCheck

SpecGuard == InitGuard /\ [][NextGuard]_vars


(***************************************************************************)
(* The editor resolver on its own: resolveEditor is applied to the editor  *)
(* key of ~/.nnav (trimmed) and the commands found in PATH; $VISUAL and    *)
(* $EDITOR are part of the input and are not read.  An editor is the       *)
(* sequence of the characters of its name.                                 *)
(***************************************************************************)
eVim == <<"v", "i", "m">>
eVi == <<"v", "i">>
eNano == <<"n", "a", "n", "o">>
eNvim == <<"n", "v", "i", "m">>
eHx == <<"h", "x">>
eEmacs == <<"e", "m", "a", "c", "s">>
eCode == <<"c", "o", "d", "e">>
eBinVi == <<"/", "b", "i", "n", "/", "v", "i">>
eViArgs == <<"v", "i", " ", "-", "R">>

allowedEditors == {eVim, eVi, eNano, eNvim, eHx, eEmacs}

\* raw == filepath.Base(raw) and no blank, slash, tab or backslash in raw
IsBare(raw) == \A i \in 1..Len(raw) : raw[i] \notin {" ", "/", "\t", "\\"}

\* resolveEditor() from raw on: [err, path]; exec.LookPath finds the
\* commands of installed.
ResolveRaw(raw, installed) ==
    IF ~IsBare(raw) THEN [err |-> "invalid editor", path |-> <<>>]
    ELSE IF raw \notin allowedEditors THEN [err |-> "editor not allowed", path |-> <<>>]
    ELSE IF raw \notin installed THEN [err |-> "editor not found in PATH", path |-> <<>>]
    ELSE [err |-> "", path |-> raw]

resolveEditor(cfgEditor, installed) ==
    ResolveRaw(IF cfgEditor = <<>> THEN eVim ELSE cfgEditor, installed)

EditorInputs ==
    [visual : {<<>>, eNano, eHx},
     editor : {<<>>, eVi, eNano},
     cfgEditor : {<<>>, eVim, eNano, eCode, eBinVi, eViArgs},
     installed : SUBSET {eVim, eVi, eNano}]

InitEditor ==
    /\ gIn \in EditorInputs
    /\ gOut = NoResult
    /\ fs = Disk0
    /\ cfgRoot = AbsP(<<nR>>)
    /\ m = NoModel
    /\ pc = "lookup"
    /\ editorArg = NoArg
    /\ log = <<>>

EditorCheck ==
    /\ pc = "lookup"
    /\ gOut' = resolveEditor(gIn.cfgEditor, gIn.installed)
    /\ pc' = "resolved"
    /\ UNCHANGED <<m, fs, cfgRoot, editorArg, log, gIn>>

SpecEditor == InitEditor /\ [][EditorCheck]_vars

\* The root with its symbolic links resolved.
ResolvedRoot(f, base) == EvalSymlinks(f, base).path.segs

\* C1: whenever the Path Guard accepts, the path it returns denotes, to the
\* operating system following all symbolic links, the resolved root or a
\* location inside it.
C1_AcceptedPathInsideRoot ==
    (pc = "checked" /\ gOut.ok) =>
        Inside(Location(fs, gOut.path), ResolvedRoot(fs, gIn.base))

(***************************************************************************)
(* The program on a filesystem that does not change: the layout, the root  *)
(* and the search term are drawn at start, and only messages are handled.  *)
(***************************************************************************)
nE == <<"e">>
nC == <<"c", ".", "m", "d">>
nF == <<"f", ".", "m", "d">>
nBdir == <<"b">>
nBig == <<"B">>
nSmall == <<"a">>
nAbig == <<"A", ".", "m", "d">>

\* /r/d holds a further directory with a note.
DiskDeep ==
    <<nR, nD, nE>> :> Dir(TRUE)
    @@ <<nR, nD, nE, nC>> :> File(TRUE, <<Line("", <<"c">>), Line("C", <<"b", "c">>)>>)
    @@ Disk0

\* The root holds an unreadable directory b, an unreadable note a.md, a
\* removed note f.md and, after each of them, entries that can be read.
DiskPerms ==
    <<nR, nBdir>> :> Dir(FALSE)
    @@ <<nR, nA>> :> File(FALSE, <<Line("A", <<"a", "B">>)>>)
    @@ <<nR, nC>> :> File(TRUE, <<Line("C", <<"b", "c">>)>>)
    @@ <<nR, nF>> :> Gone
    @@ <<nR, nK>> :> File(TRUE, <<Line("K", <<"c">>)>>)
    @@ Disk0

\* Names in both cases: the directories B and a, the notes A.md, B.txt and
\* a.md in the root.
DiskMixed ==
    <<nR>> :> Dir(TRUE)
    @@ <<nR, nBig>> :> Dir(TRUE) @@ <<nR, nBig, nC>> :> File(TRUE, <<Line("C", <<"a", "B">>)>>)
    @@ <<nR, nSmall>> :> Dir(TRUE) @@ <<nR, nSmall, nC>> :> File(TRUE, <<Line("", <<"b", "c">>)>>)
    @@ <<nR, nAbig>> :> File(TRUE, <<Line("", <<"a", "B">>)>>)
    @@ <<nR, nB>> :> File(TRUE, <<Line("B", <<"b", "c">>)>>)
    @@ <<nR, nA>> :> File(TRUE, <<Line("A", <<"a", "B">>)>>)
    @@ Outside

\* Notes whose heading comes after, before or without the line that holds
\* the term: a.md (term, heading A, heading Z), c.md (heading C, term),
\* k.md (term, no heading) and f.md (a heading of one blank, term).
DiskTitles ==
    <<nR>> :> Dir(TRUE)
    @@ <<nR, nA>> :> File(TRUE, <<Line("", <<"a", "B">>), Line("A", <<"c">>), Line("Z", <<"c">>)>>)
    @@ <<nR, nC>> :> File(TRUE, <<Line("C", <<"c">>), Line("", <<"b", "c">>)>>)
    @@ <<nR, nK>> :> File(TRUE, <<Line("", <<"b", "c">>)>>)
    @@ <<nR, nF>> :> File(TRUE, <<Line(" ", <<"B">>)>>)
    @@ Outside

\* Names by extension: k.MD, a.mdx, md and .md in the root, and a.mdx
\* beside B.txt in /r/d; every file holds the term.
nUp == <<"k", ".", "M", "D">>
nMdx == <<"a", ".", "m", "d", "x">>
nBare == <<"m", "d">>
nHidden == <<".", "m", "d">>

DiskExts ==
    <<nR>> :> Dir(TRUE) @@ <<nR, nD>> :> Dir(TRUE)
    @@ <<nR, nUp>> :> File(TRUE, <<Line("K", <<"a", "B">>)>>)
    @@ <<nR, nMdx>> :> File(TRUE, <<Line("X", <<"b", "c">>)>>)
    @@ <<nR, nBare>> :> File(TRUE, <<Line("M", <<"a", "B">>)>>)
    @@ <<nR, nHidden>> :> File(TRUE, <<Line("", <<"b", "c">>)>>)
    @@ <<nR, nD, nMdx>> :> File(TRUE, <<Line("X", <<"a", "B">>)>>)
    @@ <<nR, nD, nB>> :> File(TRUE, <<Line("", <<"b", "c">>)>>)
    @@ Outside

\* Links inside the root: /r/d/e leads back to the root, /r/d/c.md is named
\* like a note and leads to the directory /r/d that holds it, and /r/f.md
\* and /r/k.md lead to each other.
DiskLoop ==
    <<nR, nD, nE>> :> Link(<<nR>>)
    @@ <<nR, nD, nC>> :> Link(<<nR, nD>>)
    @@ <<nR, nF>> :> Link(<<nR, nK>>) @@ <<nR, nK>> :> Link(<<nR, nF>>)
    @@ Disk0

\* A layout without a symbolic link: the root /r with the notes a.md and
\* ..x.md and the directory d, which holds B.txt.
DiskPlain ==
    <<nR>> :> Dir(TRUE) @@ <<nR, nD>> :> Dir(TRUE)
    @@ <<nR, nD, nB>> :> File(TRUE, <<Line("", <<"b", "c">>)>>)
    @@ <<nR, nA>> :> File(TRUE, <<Line("A", <<"c">>)>>)
    @@ <<nR, nDots>> :> File(TRUE, <<Line("X", <<"a", "B">>)>>)

StaticDisks ==
    {Disk0, DiskSwap, DiskDangling, DiskDirLink, DiskDots, DiskDeep, DiskPerms, DiskMixed,
     DiskTitles, DiskExts, DiskLoop, DiskPlain}
StaticRoots == {AbsP(<<nR>>), AbsP(<<nS>>)}

InitStatic ==
    \E d \in StaticDisks, r \in StaticRoots, term \in Terms : InitWith(d, r, term)

NextStatic == Down \/ Up \/ Right \/ Left \/ Enter \/ EditorExit \/ Reload \/ Resume \/ Resize

SpecStatic == InitStatic /\ [][NextStatic]_vars

(***************************************************************************)
(* The scanner under the keys that load and walk the tree: the layout, the *)
(* root and the search term are drawn at start; the window is never sized  *)
(* and no editor is started.                                               *)
(***************************************************************************)
NextScan == Down \/ Up \/ Right \/ Left \/ Reload

SpecScan == InitStatic /\ [][NextScan]_vars


(***************************************************************************)
(* The window over a long list: a root of MaxNotes notes beside the        *)
(* directory d, walked and resized to heights whose usable part is 0, 4    *)
(* and 5 up to MaxTall - 4.                                                *)
(***************************************************************************)
MaxNotes == 6
MaxTall == 11

TallHeights == {4} \cup (8..MaxTall)

DiskLong == Extras(MaxNotes) @@ Disk0

InitScroll == InitWith(DiskLong, AbsP(<<nR>>), <<>>)

ResizeTall ==
    /\ pc = "ui"
    /\ \E h \in TallHeights : m' = UpdateWindowSize(m, h)
    /\ log' = <<>>
    /\ UNCHANGED <<pc, editorArg>> /\ Frame

NextScroll == Down \/ Up \/ Right \/ Left \/ Reload \/ ResizeTall

SpecScroll == InitScroll /\ [][NextScroll]_vars
\* Every node of the tree under n, n included.
RECURSIVE NodesOf(_)
NodesOf(n) ==
    {n} \cup UNION {NodesOf(n.Children[i]) : i \in 1..Len(n.Children)}

\* A link beneath the root whose target lies outside the root.
EscapingLinks(f, root) ==
    {q \in DOMAIN f : /\ f[q].kind = "link"
                      /\ Inside(q, ResolvedRoot(f, root))
                      /\ ~Inside(f[q].target, ResolvedRoot(f, root))}

(***************************************************************************)
(* Claims                                                                  *)
(***************************************************************************)

\* C2: every directory listing, file open and editor launch of a handler is
\* preceded, in the same handler, by an accepting Path Guard check of the
\* path it lists, opens or hands to the editor.
C2_EveryAccessGuarded ==
    \A i \in 1..Len(log) :
        log[i].op \in {"list", "open", "exec"} =>
            \E j \in 1..(i - 1) :
                /\ log[j].op = "guard" /\ log[j].ok
                /\ (log[j].path = log[i].path \/ log[j].res = log[i].path)

\* C3: with the filesystem and the root unchanged, the Path Guard accepts
\* the Path of every node of the tree, the root node included.
C3_EveryNodePathAccepted ==
    \A n \in NodesOf(m.root) : safePathWithinNotes(fs, cfgRoot, n.Path).ok

\* C3 witness: a tree under a root reached through a link, extended by Expand.
C3_Witness ==
    /\ cfgRoot = AbsP(<<nS>>) /\ m.searchTerm = <<>>
    /\ \E i \in 1..Len(m.root.Children) : Len(m.root.Children[i].Children) > 0

\* C4: when a scanned directory holds a link that leaves the root, no node
\* has a path outside the root or a path that denotes a location outside it.
C4_NoNodeOutsideRoot ==
    EscapingLinks(fs, cfgRoot) # {} =>
        \A n \in NodesOf(m.root) :
            /\ Inside(n.Path.segs, cfgRoot.segs)
            /\ Inside(Location(fs, n.Path), ResolvedRoot(fs, cfgRoot))

\* C4 witness: the root directory holds a dangling link that leaves the root
\* and has been scanned into a tree with nodes.
C4_Witness ==
    /\ fs = DiskDangling
    /\ <<nR, nL>> \in EscapingLinks(fs, cfgRoot)
    /\ Len(m.root.Children) > 0

\* The node at the cursor is a file the Path Guard accepts under the root
\* configured now.
CursorFileAccepted ==
    /\ Len(m.visible) > 0
    /\ ~CursorNode(m).IsDir
    /\ safePathWithinNotes(fs, cfgRoot, CursorNode(m).Path).ok

\* C5: a step launches the editor only from a file at the cursor that the
\* Path Guard accepts under the current root, and with the path the guard
\* returned; the enter key on anything else launches nothing and leaves the
\* tree, the cursor and the visible sequence as they were.
C5_EnterLaunchesOnlyGuarded ==
    [][/\ (pc = "ui" /\ pc' = "editor") =>
             /\ CursorFileAccepted
             /\ editorArg' = safePathWithinNotes(fs, cfgRoot, CursorNode(m).Path).path
             /\ m' = m
       /\ (Enter /\ ~CursorFileAccepted) =>
             /\ pc' = "ui"
             /\ m'.root = m.root /\ m'.cursor = m.cursor /\ m'.visible = m.visible]_vars

\* C5 witness: the editor runs on /r/a.md after an earlier enter was refused.
C5_Witness ==
    /\ pc = "editor"
    /\ editorArg = AbsP(<<nR, nA>>)
    /\ m.status[1] = "unsafe path: "

\* The pre-order traversal of the children ks of the node at addr, from
\* child i on, at the given depth.
RECURSIVE PreOrder(_, _, _, _)
PreOrder(ks, addr, depth, i) ==
    IF i > Len(ks) THEN <<>>
    ELSE <<[N |-> Append(addr, i), Depth |-> depth]>>
         \o (IF ks[i].IsDir /\ ks[i].Expanded
             THEN PreOrder(ks[i].Children, Append(addr, i), depth + 1, 1) ELSE <<>>)
         \o PreOrder(ks, addr, depth, i + 1)

\* C6: the visible sequence is the pre-order traversal of the tree from the
\* children of the root at depth 0, descending into expanded directories.
C6_VisibleIsPreOrder == m.visible = PreOrder(m.root.Children, <<>>, 0, 1)

\* C6 witness: a directory has been expanded and its children are visible
\* while the last reload failed.
C6_Witness ==
    /\ \E i \in 1..Len(m.visible) : m.visible[i].Depth = 1
    /\ m.status[1] = "reload failed: "

\* What recompute makes of a prior cursor c on the current tree.
ClampedTo(c, r) ==
    r.cursor = IF c < Len(r.visible) THEN c
               ELSE IF Len(r.visible) = 0 THEN 0 ELSE Len(r.visible) - 1

\* C7: the cursor is an index of the visible sequence, 0 when it is empty;
\* and recompute turns a prior cursor beyond the sequence into the last
\* valid index.
C7_CursorInRange ==
    /\ m.cursor >= 0
    /\ m.cursor <= Max(0, Len(m.visible) - 1)
    /\ \A c \in 0..(Len(m.visible) + 1) : ClampedTo(c, recompute([m EXCEPT !.cursor = c]))

\* C7 witness: the cursor is on the last of several entries.
C7_Witness == m.cursor = Len(m.visible) - 1 /\ m.cursor >= 2

\* C8: moving down on the last entry and moving up on the first leave the
\* model as it is; any other move changes the cursor by exactly one.
C8_MoveNoWrap ==
    [][/\ (Down /\ m.cursor >= Len(m.visible) - 1) => m' = m
       /\ (Up /\ m.cursor = 0) => m' = m
       /\ (Down /\ m.cursor < Len(m.visible) - 1) => m'.cursor = m.cursor + 1
       /\ (Up /\ m.cursor > 0) => m'.cursor = m.cursor - 1]_vars

\* C8 witness: the cursor has been moved down to the last entry, where the
\* window has scrolled.
C8_Witness == m.cursor = Len(m.visible) - 1 /\ m.cursor > 0 /\ m.scroll > 0

\* C9: with a positive usable height and a non-empty sequence the cursor is
\* inside the window.
C9_CursorInWindow ==
    (m.height - 4 > 0 /\ Len(m.visible) > 0) =>
        (m.scroll <= m.cursor /\ m.cursor < m.scroll + (m.height - 4))

\* C10: with a positive usable height the window does not pass either end
\* of the sequence.
C10_ScrollInBounds ==
    m.height - 4 > 0 =>
        (0 <= m.scroll /\ m.scroll <= Max(0, Len(m.visible) - (m.height - 4)))

\* C10 witness: the window has scrolled to the end of a sequence longer than
\* the usable height.
C10_Witness ==
    /\ m.height - 4 > 0
    /\ m.scroll > 0
    /\ m.scroll = Len(m.visible) - (m.height - 4)

\* C11: with a non-positive usable height the rows drawn are the whole
\* visible sequence, from index 0 on, whatever the scroll value is.
C11_WholeSequenceRendered ==
    m.height - 4 <= 0 =>
        /\ Len(View(m).rows) = Len(m.visible)
        /\ \A k \in 1..Len(View(m).rows) : View(m).rows[k].index = k - 1

\* C12: after a reload that succeeds (the r key or the return from the
\* editor) the cursor is 0 and the row of index 0 is drawn.
C12_ReloadShowsFirst ==
    [][((Reload \/ Resume) /\ buildTree(fs, cfgRoot, m.searchTerm).err = "") =>
          /\ m'.cursor = 0
          /\ Len(m'.visible) > 0 =>
                \E k \in 1..Len(View(m').rows) : View(m').rows[k].index = 0]_vars

\* No directory listing and no file open is in the access log l.
NoScan(l) == \A i \in 1..Len(l) : l[i].op \notin {"list", "open"}

\* The second of two calls of expandIfNeeded changes nothing and scans
\* nothing.
SecondExpandSame(first, second) ==
    /\ ~second.err
    /\ second.node.Children = first.node.Children
    /\ NoScan(second.log)

ExpandTwiceSame(first) ==
    ~first.err => SecondExpandSame(first, expandIfNeeded(fs, cfgRoot, first.node, m.searchTerm))

\* C13: for every directory node of the tree, a second call of
\* expandIfNeeded right after a first one that succeeded yields the same
\* children and performs no scan, also when the first scan found nothing.
C13_ExpandTwiceIdempotent ==
    \A n \in NodesOf(m.root) :
        n.IsDir => ExpandTwiceSame(expandIfNeeded(fs, cfgRoot, n, m.searchTerm))

\* C14: a directory at the cursor that is expanded has been scanned; when
\* the left key collapses it, it keeps its children, and the right key that
\* expands it again lists no directory and opens no file.
C14_ToggleNoScan ==
    [][(Left /\ Len(m.visible) > 0 /\ CursorNode(m).IsDir /\ CursorNode(m).Expanded) =>
          /\ CursorNode(m').Children = CursorNode(m).Children
          /\ NoScan(UpdateRight(m', fs', cfgRoot').log)]_vars

\* The right key on a collapsed directory at the cursor.
ExpandAtCursor == Len(m.visible) > 0 /\ CursorNode(m).IsDir /\ ~CursorNode(m).Expanded /\ Right

\* The scan expandIfNeeded makes for the node at the cursor fails: the node
\* has no children yet and its directory cannot be listed.
ExpandScanFails == Len(CursorNode(m).Children) = 0 /\ ~ListOK(fs, CursorNode(m).Path)

\* C15: an expand whose scan fails leaves the tree, the visible sequence
\* and the cursor as they were and reports the error in the status; an
\* expand that succeeds leaves the node expanded with the complete result
\* of the scan as its children.
C15_ExpandAllOrNothing ==
    [][/\ (ExpandAtCursor /\ ExpandScanFails) =>
             /\ m'.root = m.root /\ m'.visible = m.visible /\ m'.cursor = m.cursor
             /\ m'.status[1] = "error: "
       /\ (ExpandAtCursor /\ ~ExpandScanFails) =>
             /\ GetNode(m'.root, CursorAddr(m)).Expanded
             /\ GetNode(m'.root, CursorAddr(m)).Children =
                  IF Len(CursorNode(m).Children) = 0
                  THEN readDirNodes(fs, cfgRoot, CursorNode(m).Path, m.searchTerm).nodes
                  ELSE CursorNode(m).Children
             /\ m'.status = m.status]_vars

\* C15 witness: an expand has failed and the directory at the cursor is
\* still collapsed.
C15_Witness ==
    /\ m.status[1] = "error: "
    /\ Len(m.visible) > 0
    /\ CursorNode(m).IsDir /\ ~CursorNode(m).Expanded

\* A reload (the r key or the return from the editor) while the root is
\* missing, is not a directory or cannot be read.
ReloadFails == ~ListOK(fs, cfgRoot) /\ (Reload \/ Resume)

\* C16: a reload that fails keeps the tree, the visible sequence, the
\* cursor and the scroll, and reports the failure in the status.
C16_FailedReloadKeepsTree ==
    [][ReloadFails =>
          /\ m'.root = m.root /\ m'.visible = m.visible
          /\ m'.cursor = m.cursor /\ m'.scroll = m.scroll
          /\ m'.height = m.height /\ m'.searchTerm = m.searchTerm
          /\ m'.status[1] = "reload failed: "]_vars

\* C16 witness: the reload failed on an unreadable root while an expanded
\* tree is displayed with the cursor moved and the window scrolled.
C16_Witness ==
    /\ m.status = <<"reload failed: ", "cannot read notesdir">>
    /\ m.cursor > 0 /\ m.scroll > 0
    /\ \E i \in 1..Len(m.visible) : m.visible[i].Depth = 1

\* What buildTree must return for a root whose resolution is w: the error
\* of os.Stat when the root does not exist, NotADirectory when it is no
\* directory, Unreadable when it cannot be listed or the Path Guard rejects
\* it, and otherwise an expanded directory node holding the scan of the
\* root.
BuildOutcome(b, w) ==
    IF w.err THEN b.err = "not found" /\ b.node = NoNode
    ELSE IF fs[w.path.segs].kind # "dir"
    THEN b.err = "notesdir must point to a directory" /\ b.node = NoNode
    ELSE IF ~fs[w.path.segs].readable \/ ~safePathWithinNotes(fs, cfgRoot, cfgRoot).ok
    THEN b.err = "cannot read notesdir" /\ b.node = NoNode
    ELSE /\ b.err = ""
         /\ b.node.IsDir /\ b.node.Expanded /\ b.node.Path = cfgRoot
         /\ b.node.Name = Last(cfgRoot.segs)
         /\ b.node.Children = readDirNodes(fs, cfgRoot, cfgRoot, m.searchTerm).nodes

\* C17: buildTree returns no tree and the matching error for a root that is
\* missing, is not a directory or cannot be read, and an expanded root node
\* with its first level when all three checks pass.
C17_BuildTreeOutcomes ==
    BuildOutcome(buildTree(fs, cfgRoot, m.searchTerm), EvalSymlinks(fs, cfgRoot))

\* C17 witness: a reload has just been refused because the root is a
\* regular file.
C17_Witness ==
    /\ m.status = <<"reload failed: ", "notesdir must point to a directory">>
    /\ cfgRoot = AbsP(<<nR, nA>>) /\ Exists(fs, cfgRoot.segs)
    /\ log # <<>>

\* The names of a sequence of nodes, in order.
NamesOf(nodes) == [i \in 1..Len(nodes) |-> nodes[i].Name]

\* The line text holds the term somewhere, letter case aside.
HasTerm(text, term) ==
    \E i \in 0..(Len(text) - Len(term)) :
        \A k \in 1..Len(term) : LowerChar(text[i + k]) = LowerChar(term[k])

\* A note of the directory dir that the scan must return: it has an allowed
\* extension, the Path Guard accepts it, it opens, and it contains the
\* search term when there is one.
EligibleNote(dir, name, term) ==
    /\ ToLower(Ext(name)) \in allowedExts
    /\ safePathWithinNotes(fs, cfgRoot, Join(dir, RelP(<<name>>))).ok
    /\ OpenOK(fs, Join(dir, RelP(<<name>>)))
    /\ (term = <<>> \/ \E i \in 1..Len(fs[Location(fs, Join(dir, RelP(<<name>>)))].lines) :
                        HasTerm(fs[Location(fs, Join(dir, RelP(<<name>>)))].lines[i].text, term))

\* The entries of the directory dir that the scan must return: every entry
\* that can be stat'ed and is an eligible note or a directory that the
\* Path Guard accepts and that can be listed (and, under a search term,
\* holds an eligible entry itself).
RECURSIVE Eligible(_, _)
Eligible(dir, term) ==
    {name \in Entries(fs, Location(fs, dir)) :
        /\ Exists(fs, Append(Location(fs, dir), name))
        /\ IF LstatIsDir(fs, AbsP(Append(Location(fs, dir), name)))
           THEN /\ safePathWithinNotes(fs, cfgRoot, Join(dir, RelP(<<name>>))).ok
                /\ ListOK(fs, Join(dir, RelP(<<name>>)))
                /\ (term = <<>> \/ Eligible(Join(dir, RelP(<<name>>)), term) # {})
           ELSE EligibleNote(dir, name, term)}

\* The scan r of the directory of node n did not fail and returned each
\* eligible entry once; if n is expanded, these are its children.
ScanReturns(n, r, eligible) ==
    /\ ~r.err
    /\ {r.nodes[i].Name : i \in 1..Len(r.nodes)} = eligible
    /\ Len(r.nodes) = Cardinality(eligible)
    /\ n.Expanded => NamesOf(n.Children) = NamesOf(r.nodes)

ScanComplete(n) ==
    ScanReturns(n, readDirNodes(fs, cfgRoot, n.Path, m.searchTerm),
                Eligible(n.Path, m.searchTerm))

\* C18: the scan of a directory that can be listed does not fail, and it
\* returns every eligible entry, whatever entries beside them cannot be
\* stat'ed, opened or listed; an expanded directory of the tree holds
\* exactly these entries.
C18_EntryFailuresSwallowed ==
    \A n \in NodesOf(m.root) :
        (n.IsDir /\ ListOK(fs, n.Path)) => ScanComplete(n)

\* C18 witness: the root was scanned with an unreadable directory, an
\* unreadable note and a removed note before entries that were kept.
C18_Witness ==
    /\ fs = DiskPerms
    /\ m.searchTerm = <<>>
    /\ NamesOf(m.root.Children) = <<nD, nC, nK>>
    /\ GetNode(m.root, <<1>>).Expanded

\* Two filesystems that differ from f only at the note q: in one, q is a
\* link to a note outside the root (the Path Guard rejects it); in the
\* other, q is a note the user may not read.
WithEscape(f, q) == [f EXCEPT ![q] = Link(<<nRo, nK>>)]
WithDenied(f, q) == [f EXCEPT ![q] = File(FALSE, @.lines)]

\* What the user sees of a model: the tree and the status text.
Seen(r) == [root |-> r.m.root, visible |-> r.m.visible, status |-> r.m.status]

SameWhenRejectedOrDenied(q) ==
    /\ Seen(UpdateReload(m, WithEscape(fs, q), cfgRoot))
         = Seen(UpdateReload(m, WithDenied(fs, q), cfgRoot))
    /\ Seen(UpdateEnter(m, WithEscape(fs, q), cfgRoot, TRUE))
         = Seen(UpdateEnter(m, WithDenied(fs, q), cfgRoot, TRUE))

\* C19: with the cursor on a note, a scan and an editor open show the user
\* the same tree and status whether the Path Guard rejects the note or the
\* note is merely unreadable.
C19_RejectionNotDistinguished ==
    (/\ Len(m.visible) > 0
     /\ ~CursorNode(m).IsDir
     /\ Exists(fs, CursorNode(m).Path.segs)
     /\ fs[CursorNode(m).Path.segs].kind = "file") =>
        SameWhenRejectedOrDenied(CursorNode(m).Path.segs)

\* Directories come before notes in ks, and within each group the names do
\* not decrease in case-insensitive order.
DirsFirstByName(ks) ==
    \A i, j \in 1..Len(ks) :
        i < j =>
            /\ ~(~ks[i].IsDir /\ ks[j].IsDir)
            /\ (ks[i].IsDir = ks[j].IsDir) =>
                   ~StrLess(ToLower(ks[j].Name), ToLower(ks[i].Name))

\* C20: the children readDirNodes returned for any directory of the tree
\* list all directories before all notes, each group in non-decreasing
\* case-insensitive order of name.
C20_DirsFirstSorted == \A n \in NodesOf(m.root) : DirsFirstByName(n.Children)

\* C20 witness: the scan of a root with the directories B and a and the
\* notes A.md, B.txt and a.md.
C20_Witness ==
    /\ fs = DiskMixed
    /\ NamesOf(m.root.Children) = <<nSmall, nBig, nAbig, nA, nB>>

\* The entry name of the directory dir is a directory the scan may enter:
\* lstat says directory, the Path Guard accepts it and it can be listed.
EnterableDir(dir, name) ==
    /\ Exists(fs, Append(Location(fs, dir), name))
    /\ LstatIsDir(fs, AbsP(Append(Location(fs, dir), name)))
    /\ safePathWithinNotes(fs, cfgRoot, Join(dir, RelP(<<name>>))).ok
    /\ ListOK(fs, Join(dir, RelP(<<name>>)))

\* The paths of the notes at any depth beneath dir that hold the term.
RECURSIVE MatchPaths(_, _)
MatchPaths(dir, term) ==
    UNION {IF EnterableDir(dir, name) THEN MatchPaths(Join(dir, RelP(<<name>>)), term)
           ELSE IF /\ Exists(fs, Append(Location(fs, dir), name))
                   /\ ~LstatIsDir(fs, AbsP(Append(Location(fs, dir), name)))
                   /\ EligibleNote(dir, name, term)
                THEN {Join(dir, RelP(<<name>>))}
                ELSE {} : name \in Entries(fs, Location(fs, dir))}

\* The paths of the directories at any depth beneath dir that the scan may
\* enter.
RECURSIVE DirPaths(_)
DirPaths(dir) ==
    UNION {IF EnterableDir(dir, name)
           THEN {Join(dir, RelP(<<name>>))} \cup DirPaths(Join(dir, RelP(<<name>>)))
           ELSE {} : name \in Entries(fs, Location(fs, dir))}

\* The tree b built under the term holds exactly the matching notes and
\* the directories above them, every directory expanded with children, and
\* the model made of it shows every matching note.
SearchTree(b, term) ==
    /\ {n.Path : n \in {n \in NodesOf(b.node) : ~n.IsDir}} = MatchPaths(cfgRoot, term)
    /\ {n.Path : n \in {n \in NodesOf(b.node) : n.IsDir}} =
          {cfgRoot} \cup {d \in DirPaths(cfgRoot) : MatchPaths(d, term) # {}}
    /\ \A n \in NodesOf(b.node) :
          n.IsDir => (n.Expanded /\ (n.Path # cfgRoot => n.Children # <<>>))
    /\ MatchPaths(cfgRoot, term) \subseteq
          {GetNode(b.node, newModel(b.node, term).visible[i].N).Path :
              i \in 1..Len(newModel(b.node, term).visible)}

SearchBuilt(b, term) == b.err = "" => SearchTree(b, term)

RECURSIVE FirstHeading(_)
FirstHeading(ls) ==
    IF ls = <<>> THEN ""
    ELSE IF Head(ls).h # "" THEN Head(ls).h
    ELSE FirstHeading(Tail(ls))

TopLevel(vis) == SelectSeq(vis, LAMBDA v : v.Depth = 0)

\* C23: the root is expanded and is no entry of the projection, and the
\* entries at depth 0 are the children of the root, each once and in order.
C23_RootHiddenExpanded ==
    /\ m.root.Expanded
    /\ \A i \in 1..Len(m.visible) : m.visible[i].N # <<>>
    /\ TopLevel(m.visible) = [k \in 1..Len(m.root.Children) |-> Visible(<<k>>, 0)]

\* C23 witness: after a reload and an expansion the root has several
\* children and the projection holds a deeper entry.
C23_Witness ==
    /\ Len(m.root.Children) >= 2
    /\ m.status = <<"reloaded at ">>
    /\ \E i \in 1..Len(m.visible) : m.visible[i].Depth = 1

\* The tree a reload makes of the root path and the search term of the
\* current tree: the new tree when the build succeeds, the current one
\* when it fails.
RebuiltSame(b) == IF b.err = "" THEN b.node ELSE m.root

\* C24: a reload, by the r key or on return from the editor, builds the
\* new tree from the root path and the search term that produced the
\* current tree.
C24_ReloadSameRootAndTerm ==
    [][(log' # <<>> /\ (Reload \/ Resume))
        => m'.root = RebuiltSame(buildTree(fs, m.root.Path, m.searchTerm))]_vars

\* The effect of a reload on the tree and the cursor.
ReloadDone(b) ==
    IF b.err = "" THEN m'.root = b.node /\ m'.cursor = 0
    ELSE m'.root = m.root /\ m'.cursor = m.cursor

\* A step in which the model or the position of the program changes.
Acts == m' # m \/ pc' # pc

\* C25: the editor is started only from the event loop; while it runs
\* nothing changes the model and the one way on is its exit, with or
\* without an error, which sends the resume event; the resume event is
\* handled, its handling is a reload and returns to the event loop, and
\* nothing else is handled before it.
C25_LaunchThenOneResume ==
    /\ [][(pc = "ui" /\ Acts) => pc' \in {"ui", "editor"}]_vars
    /\ [][(pc = "editor" /\ Acts) => (pc' = "resumed" /\ m' = m)]_vars
    /\ [][(pc = "resumed" /\ Acts)
            => (pc' = "ui" /\ ReloadDone(buildTree(fs, cfgRoot, m.searchTerm)))]_vars
    /\ (pc = "resumed") ~> (pc = "ui")

\* C25 witness: back in the event loop after the editor, with the tree
\* reloaded: the status is the help text again and the last handler read
\* the root.
C25_Witness ==
    /\ pc = "ui"
    /\ m.status = helpText
    /\ log # <<>> /\ log[1].op = "stat"
    /\ m.cursor = 0 /\ Len(m.visible) >= 2

\* The entry a node was made of is a directory by lstat.
MadeOfDir(n) ==
    LstatIsDir(fs, AbsP(Append(EvalSymlinks(fs, AbsP(Front(n.Path.segs))).path.segs, n.Name)))

\* C26 as claimed: the extension of the name of every note of the tree is
\* .md or .txt.
C26_NoteExtensionExact ==
    \A n \in NodesOf(m.root) : ~n.IsDir => Ext(n.Name) \in allowedExts

\* C26: the extension of the name of every note of the tree is .md or .txt
\* in any letter case, and a node below the root whose name has another
\* extension, or none, is a directory node made of a directory.
C26_NoteExtensionAnyCase ==
    \A n \in NodesOf(m.root) \ {m.root} :
        /\ ~n.IsDir => ToLower(Ext(n.Name)) \in allowedExts
        /\ ToLower(Ext(n.Name)) \notin allowedExts => (n.IsDir /\ MadeOfDir(n))

\* C26 witness: a tree built under a search term of a root that holds
\* k.MD, a.mdx and md, all three with the term, shows k.MD.
C26_Witness ==
    /\ fs = DiskExts /\ m.searchTerm = <<"B">>
    /\ \E n \in NodesOf(m.root) : n.Name = nUp /\ ~n.IsDir
    /\ \E n \in NodesOf(m.root) : n.Name = nD /\ n.IsDir /\ Len(n.Children) = 1

\* The editor the README names: $VISUAL, else $EDITOR, else the first of
\* vim, vi and nano that is installed; <<>> when there is none.
FirstAvailable(installed) ==
    IF eVim \in installed THEN eVim
    ELSE IF eVi \in installed THEN eVi
    ELSE IF eNano \in installed THEN eNano
    ELSE <<>>

DocumentedEditor(in) ==
    IF in.visual # <<>> THEN in.visual
    ELSE IF in.editor # <<>> THEN in.editor
    ELSE FirstAvailable(in.installed)

\* C27: the editor resolved is $VISUAL when it is set, else $EDITOR when it
\* is set, else the first of vim, vi and nano that is installed.
C27_EditorFromEnvironment ==
    (pc = "resolved" /\ DocumentedEditor(gIn) # <<>>)
        => (gOut.err = "" /\ gOut.path = DocumentedEditor(gIn))

\* The entries of the window above and below the cursor.
AboveInWindow == m.cursor - m.scroll
BelowInWindow == Min(m.scroll + (m.height - 4), Len(m.visible)) - 1 - m.cursor

\* C28: with a usable height of 5 or more the window holds two entries
\* above the cursor, or all there are, and two entries below it, or all
\* there are.
C28_CursorMargins ==
    m.height - 4 >= 5 =>
        /\ AboveInWindow >= Min(2, m.cursor)
        /\ BelowInWindow >= Min(2, Len(m.visible) - 1 - m.cursor)

\* C28 witness: at a usable height of 5 or more the window has scrolled and
\* holds exactly two entries below the cursor while more follow.
C28_Witness ==
    /\ m.height - 4 >= 5
    /\ m.scroll > 0
    /\ BelowInWindow = 2
    /\ Len(m.visible) - 1 - m.cursor > 2

\* The right key on a collapsed directory at the cursor leaves it expanded.
ExpandSucceeds == ExpandAtCursor /\ GetNode(m'.root, CursorAddr(m)).Expanded

\* The number of entries the step adds to the visible sequence.
Inserted == Len(m'.visible) - Len(m.visible)

\* C29: an expand that succeeds on the collapsed directory at the cursor,
\* of depth d, leaves the entries up to the cursor as they were, puts the
\* pre-order traversal of the directory's subtree right after it, its
\* children at depth d + 1, and leaves the entries that followed the
\* directory as they were, after the inserted ones.
C29_ExpandInsertsSubtree ==
    [][ExpandSucceeds =>
          /\ Inserted >= 0
          /\ SubSeq(m'.visible, 1, m.cursor + 1) = SubSeq(m.visible, 1, m.cursor + 1)
          /\ SubSeq(m'.visible, m.cursor + 2, m.cursor + 1 + Inserted)
               = PreOrder(GetNode(m'.root, CursorAddr(m)).Children, CursorAddr(m),
                          m.visible[m.cursor + 1].Depth + 1, 1)
          /\ SubSeq(m'.visible, m.cursor + 2 + Inserted, Len(m'.visible))
               = SubSeq(m.visible, m.cursor + 2, Len(m.visible))]_vars

\* C29 witness: without a search term the directory at the cursor is
\* expanded, its first child follows it one level deeper and an entry of
\* the directory's own depth comes after its children.
C29_Witness ==
    /\ m.searchTerm = <<>>
    /\ Len(m.visible) > m.cursor + 2
    /\ CursorNode(m).IsDir /\ CursorNode(m).Expanded
    /\ m.visible[m.cursor + 2].Depth = m.visible[m.cursor + 1].Depth + 1
    /\ \E j \in (m.cursor + 3)..Len(m.visible) :
          m.visible[j].Depth = m.visible[m.cursor + 1].Depth

\* The directory the scan of a step is given: the root for buildTree, whose
\* log begins with the stat of the root, and the directory at the cursor
\* for an expand.
ScannedDir == IF log'[1].op = "stat" THEN cfgRoot ELSE CursorNode(m).Path

\* p is the directory d, under its own name or resolved, or an entry of it.
IsDirItself(p, d) == p.segs \in {d.segs, ResolvedRoot(fs, d)}
IsEntryOf(p, d) == p.segs # <<>> /\ Front(p.segs) \in {d.segs, ResolvedRoot(fs, d)}

\* The nodes the scan of a step creates: the children of the new root, or
\* of the directory at the cursor.
ScannedNodes ==
    IF log'[1].op = "stat" THEN m'.root.Children
    ELSE GetNode(m'.root, CursorAddr(m)).Children

\* Every directory node among ns is collapsed and has no children.
DirsUnloaded(ns) ==
    \A i \in 1..Len(ns) : ns[i].IsDir => (~ns[i].Expanded /\ ns[i].Children = <<>>)

\* A step that scans without a search term.
PlainScan == m.searchTerm = <<>> /\ log' # <<>>

\* C30 as claimed: without a search term a scan lists the directory it is
\* given and reads entry names of no other directory, the directory nodes
\* it creates are collapsed without children, and it opens nothing below a
\* subdirectory.
C30_SubdirUntouched ==
    [][PlainScan =>
          /\ \A i \in 1..Len(log') :
                /\ log'[i].op \in {"list", "readdirnames"} => IsDirItself(log'[i].path, ScannedDir)
                /\ log'[i].op = "open" =>
                      (IsDirItself(log'[i].path, ScannedDir) \/ IsEntryOf(log'[i].path, ScannedDir))
          /\ DirsUnloaded(ScannedNodes)]_vars

\* C30: without a search term a scan lists in full only the directory it
\* is given; of a subdirectory it opens the directory and reads one entry
\* name, to see whether it can be listed, and nothing more; the directory
\* nodes it creates are collapsed without children; it opens nothing below
\* a subdirectory.
C30_ScanOneLevel ==
    [][PlainScan =>
          /\ \A i \in 1..Len(log') :
                /\ log'[i].op = "list" => IsDirItself(log'[i].path, ScannedDir)
                /\ log'[i].op \in {"open", "readdirnames"} =>
                      (IsDirItself(log'[i].path, ScannedDir) \/ IsEntryOf(log'[i].path, ScannedDir))
          /\ DirsUnloaded(ScannedNodes)]_vars

\* C30 witness: without a search term the directory /r/d has been expanded;
\* its subdirectory e was probed and is a collapsed node without children.
C30_Witness ==
    /\ m.searchTerm = <<>>
    /\ \E i \in 1..Len(log) : log[i].op = "readdirnames" /\ Len(log[i].path.segs) = 3
    /\ Len(m.visible) > 0 /\ CursorNode(m).IsDir /\ CursorNode(m).Expanded
    /\ \E k \in 1..Len(CursorNode(m).Children) :
          /\ CursorNode(m).Children[k].IsDir
          /\ CursorNode(m).Children[k].Children = <<>>

\* What a node new may differ in from the node old it was: a directory may
\* toggle Expanded and may get its first children; children once there
\* stay, each within the same limits; a note changes in nothing.
RECURSIVE SameButToggles(_, _)
SameButToggles(old, new) ==
    /\ new.Name = old.Name /\ new.Path = old.Path
    /\ new.IsDir = old.IsDir /\ new.Title = old.Title
    /\ ~old.IsDir => (new.Expanded = old.Expanded /\ new.Children = old.Children)
    /\ old.Children # <<>> =>
          /\ Len(new.Children) = Len(old.Children)
          /\ \A i \in 1..Len(old.Children) : SameButToggles(old.Children[i], new.Children[i])

\* A step of a reload: its access log begins with the stat of the root.
ReloadStep == log' # <<>> /\ log'[1].op = "stat"

\* C31: a step that is no reload changes no Name, Path, IsDir or Title of
\* a node and no children sequence that is populated; it may toggle
\* Expanded of directories and populate a directory without children.  No
\* note is expanded or has children.
C31_OnlyTogglesBetweenReloads ==
    /\ [][~ReloadStep => SameButToggles(m.root, m'.root)]_vars
    /\ [](\A n \in NodesOf(m.root) : ~n.IsDir => (~n.Expanded /\ n.Children = <<>>))

\* C31 witness: without a search term a directory that was expanded and
\* populated is collapsed again and keeps its children.
C31_Witness ==
    /\ m.searchTerm = <<>>
    /\ \E n \in NodesOf(m.root) :
          /\ n.IsDir /\ ~n.Expanded /\ n.Children # <<>>

\* The candidate joined to the root, links not resolved.
RootJoined(in) == Join(in.base, Clean(in.cand))

\* The candidate, normalized, is relative and names a place lexically
\* inside the root.
NormalInside(in) ==
    /\ ~IsAbs(Clean(in.cand))
    /\ Inside(RootJoined(in).segs, in.base.segs)

\* C32: a candidate that is lexically inside the root and whose joined path
\* cannot be resolved is accepted, and the guard returns the joined path
\* unresolved, whatever the root.
C32_UnresolvableAccepted ==
    (/\ pc = "checked"
     /\ NormalInside(gIn)
     /\ EvalSymlinks(fs, RootJoined(gIn)).err)
        => (gOut.ok /\ gOut.path = RootJoined(gIn))

\* The root-relative form of the candidate begins with a parent-directory
\* segment.
BeginsWithParent(in) ==
    /\ ~IsAbs(Clean(in.cand))
    /\ Rel(in.base, RootJoined(in)).path.segs # <<>>
    /\ Head(Rel(in.base, RootJoined(in)).path.segs) = DotDot

\* The joined path of the candidate resolves, and to a place that is
\* neither the resolved root nor inside it.
ResolvesOutside(in) ==
    /\ ~EvalSymlinks(fs, RootJoined(in)).err
    /\ ~Inside(EvalSymlinks(fs, RootJoined(in)).path.segs, ResolvedRoot(fs, in.base))

\* C33: the guard rejects a candidate whose normalized form is absolute,
\* one whose root-relative form begins with a parent-directory segment, and
\* one whose joined path resolves outside the resolved root, a sibling whose
\* name begins with the root's included; the candidate "." is accepted
\* and yields the resolved root.
C33_GuardRejects ==
    pc = "checked" =>
        /\ IsAbs(Clean(gIn.cand)) => ~gOut.ok
        /\ BeginsWithParent(gIn) => ~gOut.ok
        /\ ResolvesOutside(gIn) => ~gOut.ok
        /\ (~IsAbs(gIn.cand) /\ Clean(gIn.cand).segs = <<>>) =>
               (gOut.ok /\ gOut.path = AbsP(ResolvedRoot(fs, gIn.base)))

\* C33 witness: under the root /r the candidate l.md, a link to /ro/k.md
\* in the sibling directory /ro, has been rejected as an escape.
C33_Witness ==
    /\ pc = "checked"
    /\ gIn = [base |-> AbsP(<<nR>>), cand |-> RelP(<<nL>>)]
    /\ EvalSymlinks(fs, RootJoined(gIn)).path = AbsP(<<nRo, nK>>)
    /\ ~gOut.ok /\ gOut.why = "symlink escape detected"

\* The left key on an expanded directory at the cursor.
CollapseAtCursor == Len(m.visible) > 0 /\ CursorNode(m).IsDir /\ CursorNode(m).Expanded /\ Left

\* The left key where it has nothing to collapse.
CollapseNothing ==
    (Len(m.visible) = 0 \/ ~CursorNode(m).IsDir \/ ~CursorNode(m).Expanded) /\ Left

\* The entries of vis that lie beneath the node at addr.
Beneath(vis, addr) ==
    SelectSeq(vis, LAMBDA v : Len(v.N) > Len(addr) /\ SubSeq(v.N, 1, Len(addr)) = addr)

\* vis without the entries beneath the node at addr.
NotBeneath(vis, addr) ==
    SelectSeq(vis, LAMBDA v : ~(Len(v.N) > Len(addr) /\ SubSeq(v.N, 1, Len(addr)) = addr))

\* C34: the left key on the expanded directory at the cursor sets its
\* Expanded to false and changes nothing else of the tree; the entries
\* beneath the directory leave the visible sequence and the others stay;
\* the cursor keeps its index and its node.  The left key on a note, on a
\* collapsed directory or on an empty sequence changes nothing.
C34_CollapseOnlyHides ==
    [][/\ CollapseAtCursor =>
             /\ m'.root = SetNode(m.root, CursorAddr(m), [CursorNode(m) EXCEPT !.Expanded = FALSE])
             /\ m'.visible = NotBeneath(m.visible, CursorAddr(m))
             /\ Beneath(m.visible, CursorAddr(m)) # <<>> \/ CursorNode(m).Children = <<>>
             /\ m'.cursor = m.cursor
             /\ CursorAddr(m') = CursorAddr(m)
       /\ CollapseNothing => m' = m]_vars

\* C34 witness: the directory at the cursor is collapsed and keeps a
\* subdirectory that is still expanded with its children.
C34_Witness ==
    /\ Len(m.visible) > 0
    /\ CursorNode(m).IsDir /\ ~CursorNode(m).Expanded
    /\ \E k \in 1..Len(CursorNode(m).Children) :
          /\ CursorNode(m).Children[k].Expanded
          /\ CursorNode(m).Children[k].Children # <<>>

\* The model r has the visible sequence and the cursor of the current one.
Restores(r) == r.visible = m.visible /\ r.cursor = m.cursor

\* C35: when the left key has collapsed the expanded directory at the
\* cursor, the right key pressed next, on whatever the disk has become,
\* restores the visible sequence and the cursor of before the collapse.
C35_CollapseExpandRestores ==
    [][CollapseAtCursor =>
          \A d \in Disks : Restores(UpdateRight(m', d, cfgRoot').m)]_vars

\* The node of the entry at index i (from 1) of the visible sequence.
EntryNode(i) == GetNode(m.root, m.visible[i].N)

\* C36: the depths of the visible sequence are a pre-order outline: the
\* first entry has depth 0, no entry is more than one level deeper than
\* the entry before it, and an entry is deeper than the entry before it
\* only when that one is an expanded directory.
C36_DepthOutline ==
    /\ Len(m.visible) > 0 => m.visible[1].Depth = 0
    /\ \A i \in 2..Len(m.visible) :
          /\ m.visible[i].Depth >= 0
          /\ m.visible[i].Depth <= m.visible[i - 1].Depth + 1
          /\ m.visible[i].Depth > m.visible[i - 1].Depth =>
                (EntryNode(i - 1).IsDir /\ EntryNode(i - 1).Expanded)

\* C36 witness: the sequence goes two levels down, and a note is followed by
\* an entry of a lower depth.
C36_Witness ==
    /\ \E i \in 1..Len(m.visible) : m.visible[i].Depth = 2
    /\ \E i \in 2..Len(m.visible) :
          /\ ~EntryNode(i - 1).IsDir
          /\ m.visible[i].Depth < m.visible[i - 1].Depth

\* The directories a handler listed, in the order of listing.
ListEvents == SelectSeq(log, LAMBDA e : e.op = "list")

\* The directory of a listing is the root or an entry that lstat reports as
\* a directory in the directory that holds it.
ListedRealDir(e) ==
    \/ e.path = cfgRoot
    \/ LstatIsDir(fs, AbsP(Append(EvalSymlinks(fs, AbsP(Front(e.path.segs))).path.segs,
                                  Last(e.path.segs))))

BuiltUnderTerm == m.searchTerm # <<>> /\ log # <<>> /\ log[1].op = "stat"

\* C37: a build under a search term lists no directory twice and lists only
\* the root and directories that are no links, and no link is a directory
\* Node of the tree, on layouts whose links lead to an ancestor, to the
\* directory that holds them and to each other.
C37_ScanOncePerBuild ==
    /\ BuiltUnderTerm =>
          /\ \A i, j \in 1..Len(ListEvents) :
                i < j => Location(fs, ListEvents[i].path) # Location(fs, ListEvents[j].path)
          /\ \A i \in 1..Len(ListEvents) : ListedRealDir(ListEvents[i])
    /\ \A n \in NodesOf(m.root) \ {m.root} : n.IsDir => MadeOfDir(n)

\* A search-built tree of the layout with the looping links that holds the
\* directory /r/d, beside the links e and c.md that were read in it.
C37_Witness ==
    /\ BuiltUnderTerm /\ fs = DiskLoop
    /\ Len(ListEvents) = 2
    /\ \E n \in NodesOf(m.root) : n.IsDir /\ n.Name = nD /\ Len(n.Children) = 1

\* C38: while the visible sequence is empty the cursor is 0, and the keys
\* down, up, right, left and enter return the model as it is, read and
\* start nothing, whether or not an editor could be resolved.
C38_EmptyListKeysInert ==
    Len(m.visible) = 0 =>
        /\ m.cursor = 0
        /\ UpdateDown(m) = m
        /\ UpdateUp(m) = m
        /\ UpdateRight(m, fs, cfgRoot) = Out(m, <<>>)
        /\ UpdateLeft(m) = m
        /\ \A edOK \in BOOLEAN : UpdateEnter(m, fs, cfgRoot, edOK) = NoLaunch(m, <<>>)

\* A search without a match was reloaded into an empty list and a key was
\* handled after it.
C38_Witness ==
    /\ Len(m.visible) = 0 /\ m.searchTerm # <<>> /\ m.root.Children = <<>>
    /\ m.status = <<"reloaded at ">> /\ pc = "ui" /\ log = <<>>
    /\ buildTree(fs, cfgRoot, m.searchTerm).err = ""

NoLinks == \A q \in DOMAIN fs : fs[q].kind # "link"

\* The directories of the tree whose entries were read: the root and every
\* expanded directory.
ScannedDirs == {n \in NodesOf(m.root) : n.IsDir /\ (n = m.root \/ n.Expanded)}

\* The entry e of the scanned directory n is a readable note by name, or a
\* directory that can be listed.
ShouldBeNode(n, e) ==
    \/ /\ fs[Append(n.Path.segs, e)].kind = "file"
       /\ fs[Append(n.Path.segs, e)].readable
       /\ ToLower(Ext(e)) \in allowedExts
    \/ /\ fs[Append(n.Path.segs, e)].kind = "dir"
       /\ fs[Append(n.Path.segs, e)].readable

\* C39: on a layout without links the Path Guard accepts every relative
\* candidate that stays inside the root in normal form, and without a term
\* every readable .md/.txt file and every listable directory of a scanned
\* directory is a child of its Node.
C39_PlainEntriesBecomeNodes ==
    NoLinks =>
        /\ \A c \in Candidates :
              NormalInside([base |-> cfgRoot, cand |-> c]) => safeJoinWithin(fs, cfgRoot, c).ok
        /\ m.searchTerm = <<>> =>
              \A n \in ScannedDirs : \A e \in Entries(fs, n.Path.segs) :
                  ShouldBeNode(n, e) =>
                      \E i \in 1..Len(n.Children) : n.Children[i].Name = e

====
